---- MODULE Spec2Model ----
(***************************************************************************)
(* The `games` table declared by app/db.py (class Game) and the script     *)
(* debug.py that builds an engine, a session factory and a session and     *)
(* then stops at the debugger prompt.                                      *)
(*                                                                         *)
(* A column value is either NULL (the empty tuple) or <<v>>.  A statement  *)
(* names its columns by a function whose domain is the set of columns it   *)
(* mentions: Game(price=5) is [price |-> <<5>>], an attribute that was     *)
(* never set (or left at Python None on a new object) is simply not in     *)
(* the domain, and an explicitly forced SQL NULL is the value NULL.        *)
(***************************************************************************)
EXTENDS Integers, FiniteSets, Sequences, TLC

VARIABLES pc, engine, Session, session, rows, rows0, now, last, nstmts, implicit

vars == <<pc, engine, Session, session, rows, rows0, now, last, nstmts, implicit>>

(* ---------------------------- bounds ----------------------------------- *)

\* statements issued through the session at the debugger prompt
MaxStmts == 2

\* readings of the storage layer's clock (CURRENT_TIMESTAMP) are 0..MaxClock
MaxClock == 1

\* explicit primary keys are drawn from 1..MaxId
MaxId == 2

(* ---------------------------- values ----------------------------------- *)

NULL == <<>>

Columns == {"id", "title", "genre", "platform", "price", "created_at", "updated_at"}

\* stand-in, at two bits, for the signed 64-bit range of an SQLite INTEGER
SqliteInteger == -2 .. 1

\* the values a statement may give to a column: for price the lowest value of
\* the store, zero and one past the highest; for the timestamps the earliest
\* and the latest reading of the clock
Inputs(c) ==
    CASE c = "id"         -> {NULL} \cup {<<i>> : i \in 1 .. MaxId}
      [] c = "title"      -> {NULL, <<"a">>}
      [] c = "genre"      -> {<<"g">>}
      [] c = "platform"   -> {<<"p">>}
      [] c = "price"      -> {NULL, <<-2>>, <<0>>, <<2>>}
      [] c = "created_at" -> {NULL, <<0>>, <<MaxClock>>}
      [] c = "updated_at" -> {NULL, <<0>>, <<MaxClock>>}

\* Game(...) / SET clauses naming one column
Single(c) == {[x \in {c} |-> v] : v \in Inputs(c)}

\* Game(title=..., genre=..., platform=..., price=...)
Listing ==
    {[title |-> <<"a">>, genre |-> <<"g">>, platform |-> <<"p">>, price |-> p] :
        p \in {<<0>>, <<1>>}}

\* the keyword arguments of Game(...): none, one column, or a whole listing
GameKwargs == {<<>>} \cup UNION {Single(c) : c \in Columns} \cup Listing

\* the SET clause of an UPDATE: at least one column
SetClauses == GameKwargs \ {<<>>}

(* ------------------------- app/db.py: Game ----------------------------- *)

Max(S) == CHOOSE m \in S : \A n \in S : n <= m

\* id = Column(Integer(), primary_key=True): an INTEGER PRIMARY KEY that is
\* not given gets one more than the largest rowid in the table
NextRowid(t) ==
    LET ids == {r.id[1] : r \in {q \in t : q.id # NULL}}
    IN  IF ids = {} THEN 1 ELSE Max(ids) + 1

\* variant: the key is only NOT NULL, uniqueness is not enforced
PrimaryKeyNotUnique(t, id) == id = NULL

\* primary_key=True: NOT NULL and UNIQUE over the table t
PrimaryKeyViolated(t, id) == id = NULL \/ \E r \in t : r.id = id

\* price = Column(Integer()): a value outside the store's integer range is
\* refused when it is bound to the statement
Overflows(g) ==
    "price" \in DOMAIN g /\ g["price"] # NULL /\ g["price"][1] \notin SqliteInteger

\* variant: created_at declared without server_default
NoServerDefault(clock) == NULL

\* server_default=func.now(): the value the store fills in on INSERT
server_default(clock) == <<clock>>

\* variant: updated_at declared without onupdate
NoOnupdate(clock) == NULL

\* onupdate=func.now(): the value added to the SET clause of an UPDATE
onupdate(clock) == <<clock>>

\* a column without a default: what was given, else NULL
Given(g, c) == IF c \in DOMAIN g THEN g[c] ELSE NULL

\* variant: a falsy price (0) is taken for a missing one
InsertedRowFalsyPrice(t, g, clock) ==
    [id         |-> IF Given(g, "id") # NULL THEN g["id"] ELSE <<NextRowid(t)>>,
     title      |-> Given(g, "title"),
     genre      |-> Given(g, "genre"),
     platform   |-> Given(g, "platform"),
     price      |-> IF Given(g, "price") = <<0>> THEN NULL ELSE Given(g, "price"),
     created_at |-> IF "created_at" \in DOMAIN g THEN g["created_at"]
                                                  ELSE server_default(clock),
     updated_at |-> Given(g, "updated_at")]

\* the row an INSERT of Game(**g) stores in table t at time clock
InsertedRow(t, g, clock) ==
    [id         |-> IF Given(g, "id") # NULL THEN g["id"] ELSE <<NextRowid(t)>>,
     title      |-> Given(g, "title"),
     genre      |-> Given(g, "genre"),
     platform   |-> Given(g, "platform"),
     price      |-> Given(g, "price"),
     created_at |-> IF "created_at" \in DOMAIN g THEN g["created_at"]
                                                  ELSE server_default(clock),
     updated_at |-> Given(g, "updated_at")]

\* variant: title declared unique=True
InsertStatusUniqueTitle(t, g) ==
    IF Overflows(g) THEN "OverflowError"
    ELSE IF PrimaryKeyViolated(t, InsertedRow(t, g, 0).id)
            \/ \E r \in t : r.title = Given(g, "title") THEN "IntegrityError"
    ELSE "ok"

\* the outcome of an INSERT of Game(**g) into table t
InsertStatus(t, g) ==
    IF Overflows(g) THEN "OverflowError"
    ELSE IF PrimaryKeyViolated(t, InsertedRow(t, g, 0).id) THEN "IntegrityError"
    ELSE "ok"

\* variant: onupdate=func.now() also put on created_at
UpdatedRowTouchCreated(r, s, clock) ==
    [id         |-> IF "id" \in DOMAIN s THEN s["id"] ELSE r.id,
     title      |-> IF "title" \in DOMAIN s THEN s["title"] ELSE r.title,
     genre      |-> IF "genre" \in DOMAIN s THEN s["genre"] ELSE r.genre,
     platform   |-> IF "platform" \in DOMAIN s THEN s["platform"] ELSE r.platform,
     price      |-> IF "price" \in DOMAIN s THEN s["price"] ELSE r.price,
     created_at |-> IF "created_at" \in DOMAIN s THEN s["created_at"]
                                                  ELSE onupdate(clock),
     updated_at |-> IF "updated_at" \in DOMAIN s THEN s["updated_at"]
                                                  ELSE onupdate(clock)]

\* variant: the UPDATE is carried out as a REPLACE, which stores the row
\* under a new rowid
UpdatedRowReplaced(r, s, clock) ==
    [id         |-> IF "id" \in DOMAIN s THEN s["id"] ELSE <<r.id[1] + 1>>,
     title      |-> IF "title" \in DOMAIN s THEN s["title"] ELSE r.title,
     genre      |-> IF "genre" \in DOMAIN s THEN s["genre"] ELSE r.genre,
     platform   |-> IF "platform" \in DOMAIN s THEN s["platform"] ELSE r.platform,
     price      |-> IF "price" \in DOMAIN s THEN s["price"] ELSE r.price,
     created_at |-> IF "created_at" \in DOMAIN s THEN s["created_at"] ELSE r.created_at,
     updated_at |-> IF "updated_at" \in DOMAIN s THEN s["updated_at"]
                                                  ELSE onupdate(clock)]

\* variant: updated_at is filled in only while it is still NULL
UpdatedRowOnce(r, s, clock) ==
    [id         |-> IF "id" \in DOMAIN s THEN s["id"] ELSE r.id,
     title      |-> IF "title" \in DOMAIN s THEN s["title"] ELSE r.title,
     genre      |-> IF "genre" \in DOMAIN s THEN s["genre"] ELSE r.genre,
     platform   |-> IF "platform" \in DOMAIN s THEN s["platform"] ELSE r.platform,
     price      |-> IF "price" \in DOMAIN s THEN s["price"] ELSE r.price,
     created_at |-> IF "created_at" \in DOMAIN s THEN s["created_at"] ELSE r.created_at,
     updated_at |-> IF "updated_at" \in DOMAIN s THEN s["updated_at"]
                    ELSE IF r.updated_at = NULL THEN onupdate(clock) ELSE r.updated_at]

\* the row an UPDATE ... SET s makes of row r at time clock
UpdatedRow(r, s, clock) ==
    [id         |-> IF "id" \in DOMAIN s THEN s["id"] ELSE r.id,
     title      |-> IF "title" \in DOMAIN s THEN s["title"] ELSE r.title,
     genre      |-> IF "genre" \in DOMAIN s THEN s["genre"] ELSE r.genre,
     platform   |-> IF "platform" \in DOMAIN s THEN s["platform"] ELSE r.platform,
     price      |-> IF "price" \in DOMAIN s THEN s["price"] ELSE r.price,
     created_at |-> IF "created_at" \in DOMAIN s THEN s["created_at"] ELSE r.created_at,
     updated_at |-> IF "updated_at" \in DOMAIN s THEN s["updated_at"]
                                                  ELSE onupdate(clock)]

\* UPDATE games SET s WHERE id = i, against table t
UpdateStatus(t, i, s) ==
    IF Overflows(s) THEN "OverflowError"
    ELSE IF "id" \in DOMAIN s /\ s["id"] # i
            /\ PrimaryKeyViolated({r \in t : r.id # i}, s["id"]) THEN "IntegrityError"
    ELSE "ok"

(* ----------------------------- state ----------------------------------- *)

\* a listing stored by an earlier run, at time 0, with no updated_at given
Stored ==
    [id |-> <<1>>, title |-> <<"a">>, genre |-> <<"g">>, platform |-> <<"p">>,
     price |-> <<0>>, created_at |-> <<0>>, updated_at |-> NULL]

\* the games table of seed_db.db as the script finds it
InitialTables == {{}, {Stored}}

\* the last statement issued: its arguments, the id it addressed (for an
\* INSERT, the id of the new row), the clock reading, the rows it addressed as
\* they were before it ran, and its outcome
NoStatement ==
    [op |-> "none", arg |-> <<>>, id |-> NULL, at |-> 0, old |-> {}, status |-> "ok"]

Init ==
    /\ pc = "create_engine"
    /\ engine = NULL
    /\ Session = NULL
    /\ session = NULL
    /\ rows \in InitialTables
    /\ rows0 = rows
    /\ now = 0
    /\ last = NoStatement
    /\ nstmts = 0
    /\ implicit = {r.id : r \in rows}

(* --------------------------- debug.py ---------------------------------- *)

\* engine = create_engine('sqlite:///seed_db.db')
CreateEngine ==
    /\ pc = "create_engine"
    /\ engine' = <<"sqlite:///seed_db.db">>
    /\ pc' = "sessionmaker"
    /\ UNCHANGED <<Session, session, rows, rows0, now, last, nstmts, implicit>>

\* Session = sessionmaker(bind=engine)
MakeSession ==
    /\ pc = "sessionmaker"
    /\ Session' = engine
    /\ pc' = "Session"
    /\ UNCHANGED <<engine, session, rows, rows0, now, last, nstmts, implicit>>

\* variant: the script empties the table before seeding it
OpenSessionClearing ==
    /\ pc = "Session"
    /\ session' = Session
    /\ pc' = "set_trace"
    /\ rows' = {}
    /\ UNCHANGED <<engine, Session, rows0, now, last, nstmts, implicit>>

\* session = Session()
OpenSession ==
    /\ pc = "Session"
    /\ session' = Session
    /\ pc' = "set_trace"
    /\ UNCHANGED <<engine, Session, rows, rows0, now, last, nstmts, implicit>>

\* variant: the script adds a Game before it stops
SetTraceSeeding ==
    /\ pc = "set_trace"
    /\ pc' = "ipdb"
    /\ rows' = rows \cup {InsertedRow(rows, <<>>, now)}
    /\ UNCHANGED <<engine, Session, session, rows0, now, last, nstmts, implicit>>

\* import ipdb; ipdb.set_trace()
SetTrace ==
    /\ pc = "set_trace"
    /\ pc' = "ipdb"
    /\ UNCHANGED <<engine, Session, session, rows, rows0, now, last, nstmts, implicit>>

(* ------------- statements issued through the session ------------------- *)

\* session.add(Game(**g)); session.commit()
Insert(g) ==
    /\ pc = "ipdb"
    /\ session # NULL
    /\ nstmts < MaxStmts
    /\ LET r  == InsertedRow(rows, g, now)
           st == InsertStatus(rows, g)
       IN  /\ rows' = IF st = "ok" THEN rows \cup {r} ELSE rows
           /\ implicit' = IF st = "ok" /\ "updated_at" \notin DOMAIN g
                          THEN implicit \cup {r.id} ELSE implicit
           /\ last' = [op |-> "insert", arg |-> g, id |-> r.id, at |-> now,
                       old |-> {}, status |-> st]
    /\ nstmts' = nstmts + 1
    /\ UNCHANGED <<pc, engine, Session, session, rows0, now>>

\* assign the attributes s of the stored Game with id i; session.commit()
Update(i, s) ==
    /\ pc = "ipdb"
    /\ session # NULL
    /\ nstmts < MaxStmts
    /\ \E r \in rows : r.id = i
    /\ LET st == UpdateStatus(rows, i, s)
       IN  /\ rows' = IF st = "ok"
                      THEN {IF r.id = i THEN UpdatedRow(r, s, now) ELSE r : r \in rows}
                      ELSE rows
           /\ implicit' = IF st = "ok" /\ "id" \in DOMAIN s /\ i \in implicit
                          THEN (implicit \ {i}) \cup {s["id"]} ELSE implicit
           /\ last' = [op |-> "update", arg |-> s, id |-> i, at |-> now,
                       old |-> {r \in rows : r.id = i}, status |-> st]
    /\ nstmts' = nstmts + 1
    /\ UNCHANGED <<pc, engine, Session, session, rows0, now>>

\* the storage layer's clock advances
Tick ==
    /\ now < MaxClock
    /\ now' = now + 1
    /\ UNCHANGED <<pc, engine, Session, session, rows, rows0, last, nstmts, implicit>>

Next ==
    \/ CreateEngine
    \/ MakeSession
    \/ OpenSession
    \/ SetTrace
    \/ \E g \in GameKwargs : Insert(g)
    \/ \E i \in {r.id : r \in rows} : \E s \in SetClauses : Update(i, s)
    \/ Tick

Spec == Init /\ [][Next]_vars

(* --------------------------- properties -------------------------------- *)

Ids(t) == {r.id : r \in t}

InsertOk == last.op = "insert" /\ last.status = "ok"

UpdateOk == last.op = "update" /\ last.status = "ok"

\* the id under which the row addressed by the last statement is stored now
NewId == IF last.op = "update" /\ "id" \in DOMAIN last.arg THEN last.arg["id"] ELSE last.id

\* the rows the last statement wrote
Written == {r \in rows : r.id = NewId}

\* title, genre, platform and price of a row
NonKey(r) == <<r.title, r.genre, r.platform, r.price>>

\* C1: in every reachable state every stored Game has a non-null id and no two
\* stored Games have the same id.
C1_IdUniqueNonNull ==
    \A r \in rows : r.id # NULL /\ \A q \in rows : q.id = r.id => q = r

\* two Games are stored, the last statement having modified one of them
C1_Witness ==
    /\ Cardinality(rows) >= 2
    /\ UpdateOk
    /\ \E o \in last.old : o \notin rows

\* C2 (as stated): a Game inserted without an explicit updated_at has
\* updated_at NULL right after the INSERT, and after any later modification of
\* any of its fields its updated_at is not NULL.
C2_Original ==
    /\ (InsertOk /\ "updated_at" \notin DOMAIN last.arg)
          => \A r \in Written : r.updated_at = NULL
    /\ (UpdateOk /\ NewId \in implicit /\ Written # last.old)
          => \A r \in Written : r.updated_at # NULL

\* C2 (amended): a Game inserted without an explicit updated_at has updated_at
\* NULL right after the INSERT, and after any later modification that does not
\* itself assign updated_at its updated_at is not NULL.
C2_UpdatedAtNullUntilUpdate ==
    /\ (InsertOk /\ "updated_at" \notin DOMAIN last.arg)
          => \A r \in Written : r.updated_at = NULL
    /\ (UpdateOk /\ NewId \in implicit /\ "updated_at" \notin DOMAIN last.arg)
          => \A r \in Written : r.updated_at # NULL

\* a Game inserted in this session without updated_at has just been modified
C2_Witness ==
    /\ UpdateOk
    /\ "updated_at" \notin DOMAIN last.arg
    /\ NewId \in implicit
    /\ NewId \notin Ids(rows0)
    /\ \E o \in last.old : o.updated_at = NULL
    /\ \E r \in Written : r.updated_at # NULL

\* C3 (as stated): right after any INSERT the new Game's created_at is not
\* NULL, it is the storage layer's time at the INSERT.
C3_Original ==
    InsertOk => \A r \in Written : r.created_at # NULL /\ r.created_at = <<last.at>>

\* C3 (amended): right after an INSERT that gives no created_at the new Game's
\* created_at is not NULL, it is the storage layer's time at the INSERT.
C3_CreatedAtDefault ==
    (InsertOk /\ "created_at" \notin DOMAIN last.arg)
        => \A r \in Written : r.created_at # NULL /\ r.created_at = <<last.at>>

\* a Game has just been inserted, without created_at, after the clock moved
C3_Witness ==
    /\ InsertOk
    /\ "created_at" \notin DOMAIN last.arg
    /\ last.at > 0
    /\ \E r \in Written : r.created_at = <<last.at>>

C5_Original ==
    UpdateOk => \A r \in Written : r.id = last.id

\* C5 (amended): no modification of a stored Game that does not itself assign
\* id changes its id.
C5_IdKept ==
    (UpdateOk /\ "id" \notin DOMAIN last.arg)
        => /\ Written # {}
           /\ \A r \in Written : r.id = last.id
           /\ \A o \in last.old : o.id = last.id

\* a stored Game has just been modified in a column other than id
C5_Witness ==
    /\ UpdateOk
    /\ "id" \notin DOMAIN last.arg
    /\ \E o \in last.old : \E r \in Written : r # o /\ r.id = o.id

\* C6: an INSERT with a price p inside the store's integer range is not
\* refused for its price, and the stored Game reads back price = p.
C6_PriceRoundTrip ==
    (/\ last.op = "insert"
     /\ "price" \in DOMAIN last.arg
     /\ last.arg["price"] # NULL
     /\ last.arg["price"][1] \in SqliteInteger)
        => /\ last.status # "OverflowError"
           /\ last.status = "ok" =>
                 /\ Written # {}
                 /\ \A r \in Written : r.price = last.arg["price"]

\* a Game has just been inserted with price 0 and with a negative price
C6_Witness ==
    /\ InsertOk
    /\ "price" \in DOMAIN last.arg
    /\ last.arg["price"] = <<0>>
    /\ \E r \in Written : r.price = <<0>>
    /\ \E q \in rows \ rows0 : q.price = <<-2>>

\* C7: the script creates the engine and the session and reaches the debugger
\* prompt without a statement: the table is then as it was at the start.
C7_ScriptStoresNothing ==
    /\ pc # "ipdb" => (rows = rows0 /\ last = NoStatement)
    /\ (pc = "ipdb" /\ nstmts = 0) =>
          (rows = rows0 /\ last = NoStatement /\ engine # NULL /\ session = engine)

\* the script is at the prompt, over a table that was not empty
C7_Witness ==
    /\ pc = "ipdb"
    /\ nstmts = 0
    /\ session # NULL
    /\ rows0 # {}
    /\ rows = rows0

\* C8 (as stated): after every modification of a stored Game its updated_at
\* is the time of that modification, and it has not decreased.
C8_Original ==
    (UpdateOk /\ Written # last.old)
        => \A o \in last.old : \A r \in Written :
              /\ r.updated_at = <<last.at>>
              /\ o.updated_at # NULL => o.updated_at[1] <= r.updated_at[1]

\* C8 (amended): after every modification of a stored Game that does not
\* itself assign updated_at, its updated_at is the time of that modification;
\* it has not decreased unless the earlier value lay in the future.
C8_UpdatedAtRefreshed ==
    (UpdateOk /\ "updated_at" \notin DOMAIN last.arg)
        => \A o \in last.old : \A r \in Written :
              /\ r.updated_at = <<last.at>>
              /\ (o.updated_at # NULL /\ o.updated_at[1] <= last.at)
                    => o.updated_at[1] <= r.updated_at[1]

\* a Game modified at an earlier time has just been modified again
C8_Witness ==
    /\ UpdateOk
    /\ "updated_at" \notin DOMAIN last.arg
    /\ \E o \in last.old : \E r \in Written :
          /\ o.updated_at # NULL
          /\ o.updated_at[1] < last.at
          /\ r.updated_at = <<last.at>>

\* C9 (as stated): a Game stored in one state is stored, under the same id, in
\* the next: the set of stored ids only grows.
C9_Original == [][Ids(rows) \subseteq Ids(rows')]_vars

\* C9 (amended): no step removes a Game: the number of stored Games never
\* decreases, and a stored id stays stored unless the step is a modification
\* that assigns that Game another id.
C9_NeverDeleted ==
    [][/\ Cardinality(rows') >= Cardinality(rows)
       /\ \A i \in Ids(rows) :
             \/ i \in Ids(rows')
             \/ /\ last'.op = "update"
                /\ last'.id = i
                /\ "id" \in DOMAIN last'.arg
                /\ last'.arg["id"] \in Ids(rows')]_vars

\* the Game found at the start is still stored after two statements that
\* added a Game
C9_Witness ==
    /\ rows0 # {}
    /\ nstmts = MaxStmts
    /\ rows0 \subseteq rows
    /\ Cardinality(rows) > Cardinality(rows0)

\* C10: an INSERT whose title, genre, platform and price equal those of a
\* stored Game, or are all NULL, and whose id is not one in use, succeeds and
\* adds a separate Game with an id of its own.
C10_NoNonKeyChecks ==
    [][(/\ nstmts' = nstmts + 1
        /\ last'.op = "insert"
        /\ \/ \E r \in rows : NonKey(r) = NonKey(InsertedRow(rows, last'.arg, now))
           \/ NonKey(InsertedRow(rows, last'.arg, now)) = <<NULL, NULL, NULL, NULL>>
        /\ Given(last'.arg, "id") \notin Ids(rows))
          => /\ last'.status = "ok"
             /\ Cardinality(rows') = Cardinality(rows) + 1
             /\ rows \subseteq rows'
             /\ \A q \in rows' \ rows :
                   /\ q.id \notin Ids(rows)
                   /\ NonKey(q) = NonKey(InsertedRow(rows, last'.arg, now))]_vars

\* a Game equal in title, genre, platform and price to a stored one has just
\* been inserted
C10_Witness ==
    /\ InsertOk
    /\ \E r \in Written : \E q \in rows :
          q.id # r.id /\ NonKey(q) = NonKey(r) /\ q.title # NULL

====
